---------------------------- MODULE Spec2Model ----------------------------
(***************************************************************************)
(* Model of evhz2.c: the per-device event-rate estimator (update_hz) and   *)
(* the three platform poll loops that feed it.                             *)
(*                                                                         *)
(* 64-bit unsigned values.  TLC's integers are narrower than 64 bits, so   *)
(* an unsigned long long v is written in its two's-complement reading: the *)
(* integer v when v < 2^63 and v - 2^64 otherwise (2^64 - 1 is written -1).*)
(* Addition and subtraction modulo 2^64 are then plain integer addition    *)
(* and subtraction as long as the result stays inside the window           *)
(* -2^63 .. 2^63 - 1, which every value of this model does; comparison and *)
(* division read the sign: a negative integer is a value >= 2^63.          *)
(***************************************************************************)
EXTENDS Integers, Sequences, FiniteSets, TLC

\* #define HZ_LIST 64
HZ_LIST == 64

\* The numerator of the rate computation, 8000ULL (ticks per second).
SCALE == 8000

\* ----------------------------------------------------------------- bounds
\* Input records, messages and HID values produced during one run of a poll
\* loop.
MaxEvents == 3
\* Calls of update_hz in the free-input specification.
MaxCalls == 5
\* Events of one pattern-driven run (more than 2 * HZ_LIST, so that a run
\* that rejects every second event still wraps the ring).
MaxRun == 135
\* Longest delta pattern of a pattern-driven run.
PatLen == 2

\* The device slots modelled: two of the EVENTS = 400 slots of main's array
\* (Linux, FreeBSD), win_mouse_event and win_keyboard_event (Windows);
\* macos_event is slot 0.
Dev == {0, 1}

VARIABLES
    events,     \* events[i]: the event_t of device i
    quit,       \* int quit
    verbose,    \* int verbose
    last,       \* the most recent update_hz call: its device, argument,
                \* the event_t before it and what it emitted
    fed,        \* fed[i]: the timestamps passed to update_hz for device i
    accepted,   \* accepted[i]: the instantaneous rates accepted for device i
    pat,        \* the delta pattern of a pattern-driven run
    ramp,       \* how much each positive delta of the run grows per event
    platform,   \* the build: "linux" (also FreeBSD), "windows" or "macos"
    pc,         \* where the main thread is
    fd,         \* fd[i]: events[i].fd, -1 when the device did not open
    max_event,  \* int max_event
    idx,        \* the loop variable i of linux_poll_loop's for loops
    ready,      \* the fd_set after select returned
    pending,    \* pending[i]: records the kernel holds for device i
    queue,      \* the thread's message queue / the run loop's HID values
    now,        \* the system clock, in microseconds
    posted,     \* input records, messages and values produced so far
    intr,       \* a signal was delivered while select was blocked
    waits,      \* waits (run-loop steps, Sleeps) that returned with quit set
    summary,    \* devices whose "Average for" line was printed
    closed      \* devices whose handle was closed

estvars == <<events, last, fed, accepted>>
runvars == <<pat, ramp>>
loopvars ==
    <<platform, pc, fd, max_event, idx, ready, pending, queue, now, posted,
      intr, waits, summary, closed>>

vars == <<events, quit, verbose, last, fed, accepted, pat, ramp, loopvars>>

\* ------------------------------------------------------- 64-bit arithmetic
\* time - evt->prev_time on unsigned long long
Sub64(a, b) == a - b

\* a + b on unsigned long long
Add64(a, b) == a + b

\* n / d on unsigned long long, for 0 <= n < 2^63 and d /= 0
Div64(n, d) == IF d > 0 THEN n \div d ELSE 0

\* ------------------------------------------------------------ the estimator
\* memset(events, 0, sizeof(events)) / event_t x = {0}
ZeroEvent ==
    [hz |-> [j \in 0 .. (HZ_LIST - 1) |-> 0], count |-> 0, avghz |-> 0,
     prev_time |-> 0]

\* A rate computed per millisecond tick instead of per 1/8000 s tick.
HzOf_perMs(timediff) == IF timediff # 0 THEN Div64(1000, timediff) ELSE 0

\* A rate computed per microsecond tick instead of per 1/8000 s tick.
HzOf_perMicro(timediff) ==
    IF timediff # 0 THEN Div64(1000000, timediff) ELSE 0

\* unsigned hz = 0; if (timediff != 0) hz = 8000ULL / timediff;
HzOf(timediff) == IF timediff # 0 THEN Div64(SCALE, timediff) ELSE 0

\* The test written hz >= 0.
Accepts_nonneg(hz) == hz >= 0

\* if (hz > 0)
Accepts(hz) == hz > 0

\* The mask written as a modulus by HZ_LIST - 1.
SlotIndex_modulo(count) == count % (HZ_LIST - 1)

\* evt->count & (HZ_LIST - 1)
SlotIndex(count) == count % HZ_LIST

\* maxavg = (evt->count > HZ_LIST) ? HZ_LIST : evt->count;
MaxAvg(count) == IF count > HZ_LIST THEN HZ_LIST ELSE count

\* for (j = 0; j < maxavg; j++) evt->avghz += evt->hz[j];
RECURSIVE SumHz(_, _)
SumHz(hz, maxavg) ==
    IF maxavg = 0 THEN 0 ELSE SumHz(hz, maxavg - 1) + hz[maxavg - 1]

\* update_hz past its first test: the delta against the baseline, the rate,
\* the sample branch and the unconditional evt->prev_time = time.
Measure(e, time) ==
    LET timediff == Sub64(time, e.prev_time)
        hz == HzOf(timediff)
    IN  IF Accepts(hz)
        THEN LET count == e.count + 1
                 arr == [e.hz EXCEPT ![SlotIndex(count)] = hz]
                 maxavg == MaxAvg(count)
                 avghz == SumHz(arr, maxavg) \div maxavg
             IN  [evt |-> [e EXCEPT !.count = count, !.hz = arr,
                                    !.avghz = avghz, !.prev_time = time],
                  sample |-> TRUE, hz |-> hz]
        ELSE [evt |-> [e EXCEPT !.prev_time = time],
              sample |-> FALSE, hz |-> hz]

\* update_hz without the baseline test of its first lines.
UpdateHz_noBaseline(e, time) == Measure(e, time)

\* update_hz with a rejected event clearing the baseline.
UpdateHz_resetOnReject(e, time) ==
    IF e.prev_time = 0
    THEN [evt |-> [e EXCEPT !.prev_time = time], sample |-> FALSE, hz |-> 0]
    ELSE LET r == Measure(e, time)
         IN  IF r.sample THEN r
             ELSE [r EXCEPT !.evt = [e EXCEPT !.prev_time = 0]]

\* update_hz with the average computed only where it is printed, inside
\* if (verbose).
UpdateHz_averageIfVerbose(e, time) ==
    IF e.prev_time = 0
    THEN [evt |-> [e EXCEPT !.prev_time = time], sample |-> FALSE, hz |-> 0]
    ELSE LET r == Measure(e, time)
         IN  IF r.sample /\ verbose = 0
             THEN [r EXCEPT !.evt.avghz = e.avghz]
             ELSE r

\* update_hz with a rejected event leaving the baseline where it was.
UpdateHz_staleOnReject(e, time) ==
    IF e.prev_time = 0
    THEN [evt |-> [e EXCEPT !.prev_time = time], sample |-> FALSE, hz |-> 0]
    ELSE LET r == Measure(e, time)
         IN  IF r.sample THEN r ELSE [r EXCEPT !.evt = e]

\* update_hz(evt, time): the event_t afterwards, whether the sample branch
\* ran, and the rate it computed.
UpdateHz(e, time) ==
    IF e.prev_time = 0
    THEN [evt |-> [e EXCEPT !.prev_time = time], sample |-> FALSE, hz |-> 0]
    ELSE Measure(e, time)

\* if (verbose) printf("%s: Latest %5dHz, Average %5dHz\n", ...)
Prints(sample) == sample /\ verbose # 0

NoCall ==
    [dev |-> -1, time |-> 0, before |-> ZeroEvent, sample |-> FALSE,
     hz |-> 0, avghz |-> 0, printed |-> FALSE]

\* update_hz keeping the baseline in one place for all devices: the call
\* for device i moves the baseline of the others too.
Observe_sharedBaseline(i, t) ==
    LET r == UpdateHz(events[i], t)
    IN  /\ events' = [j \in Dev |->
                        IF j = i THEN r.evt
                        ELSE [events[j] EXCEPT !.prev_time = t]]
        /\ last' = [dev |-> i, time |-> t, before |-> events[i],
                    sample |-> r.sample, hz |-> r.hz,
                    avghz |-> r.evt.avghz, printed |-> Prints(r.sample)]
        /\ fed' = [fed EXCEPT ![i] = Append(@, t)]
        /\ accepted' = [accepted EXCEPT
                            ![i] = IF r.sample THEN Append(@, r.hz) ELSE @]

\* One call update_hz(&events[i], t), with its record.
Observe(i, t) ==
    LET r == UpdateHz(events[i], t)
    IN  /\ events' = [events EXCEPT ![i] = r.evt]
        /\ last' = [dev |-> i, time |-> t, before |-> events[i],
                    sample |-> r.sample, hz |-> r.hz,
                    avghz |-> r.evt.avghz, printed |-> Prints(r.sample)]
        /\ fed' = [fed EXCEPT ![i] = Append(@, t)]
        /\ accepted' = [accepted EXCEPT
                           ![i] = IF r.sample THEN Append(@, r.hz) ELSE @]

\* No poll loop runs: the estimator is driven directly.
NoLoop ==
    /\ platform = "none"
    /\ pc = "none"
    /\ fd = [i \in Dev |-> -1]
    /\ max_event = -1
    /\ idx = 0
    /\ ready = {}
    /\ pending = [i \in Dev |-> <<>>]
    /\ queue = <<>>
    /\ now = 0
    /\ posted = 0
    /\ intr = FALSE
    /\ waits = 0
    /\ summary = {}
    /\ closed = {}

\* --------------------------------------------- the estimator on free inputs
\* Timestamps of the free-input specification: the sentinel 0, ticks that
\* are 1, 40, 80 and 120 apart, one more than 8000 ticks later, and the
\* largest 64-bit value.
Times == {0, 1, 41, 121, 9000, -1}

EstInit ==
    /\ events = [i \in Dev |-> ZeroEvent]
    /\ quit = 0
    /\ verbose \in {0, 1}
    /\ last = NoCall
    /\ fed = [i \in Dev |-> <<>>]
    /\ accepted = [i \in Dev |-> <<>>]
    /\ pat = <<>>
    /\ ramp = 0
    /\ NoLoop

Call(t) ==
    /\ Len(fed[0]) < MaxCalls
    /\ Observe(0, t)
    /\ UNCHANGED <<quit, verbose, pat, ramp, loopvars>>

Next == \E t \in Times : Call(t)

Spec == EstInit /\ [][Next]_vars

\* ------------------------------------------- two runs on the same events
\* Two runs of the program side by side on one timestamp sequence: run 0
\* started without -n (verbose stays 1), run 1 started with -n (main sets
\* verbose = 0).  events[r], fed[r], accepted[r] are run r's estimator and
\* record; the runs step in turn and verbose holds the flag of the run
\* whose step is next.
PairInit ==
    /\ events = [i \in Dev |-> ZeroEvent]
    /\ quit = 0
    /\ verbose = 1
    /\ last = NoCall
    /\ fed = [i \in Dev |-> <<>>]
    /\ accepted = [i \in Dev |-> <<>>]
    /\ pat = <<>>
    /\ ramp = 0
    /\ NoLoop

\* The verbose run takes the next event.
PairVerbose(t) ==
    /\ verbose = 1
    /\ Len(fed[0]) = Len(fed[1])
    /\ Len(fed[0]) < MaxCalls
    /\ Observe(0, t)
    /\ verbose' = 0
    /\ UNCHANGED <<quit, pat, ramp, loopvars>>

\* The non-verbose run takes the same event.
PairQuiet ==
    /\ verbose = 0
    /\ Len(fed[1]) < Len(fed[0])
    /\ Observe(1, fed[0][Len(fed[1]) + 1])
    /\ verbose' = 1
    /\ UNCHANGED <<quit, pat, ramp, loopvars>>

PairNext == (\E t \in Times : PairVerbose(t)) \/ PairQuiet

PairSpec == PairInit /\ [][PairNext]_vars

\* ------------------------------------------ the estimator on long runs
\* A pattern-driven run feeds one estimator a first timestamp and then
\* timestamps whose deltas cycle through a pattern, long enough for the
\* ring of HZ_LIST slots to wrap.  With ramp = 1 the k-th positive delta is
\* k ticks longer, so the accepted rates of a run keep changing.
Deltas == {0, 40, 80, 9000, -7}

\* The delta between the k-th timestamp of a run and the next.
RunDelta(k) ==
    LET d == pat[((k - 1) % Len(pat)) + 1]
    IN  IF d > 0 THEN d + ramp * k ELSE d

T0Set == {0, 1000}

Patterns == UNION {[1 .. n -> Deltas] : n \in 1 .. PatLen}

RunInit ==
    /\ events = [i \in Dev |-> ZeroEvent]
    /\ quit = 0
    /\ verbose = 1
    /\ last = NoCall
    /\ fed = [i \in Dev |-> <<>>]
    /\ accepted = [i \in Dev |-> <<>>]
    /\ pat \in Patterns
    /\ ramp \in {0, 1}
    /\ NoLoop

RunFirst(t) ==
    /\ fed[0] = <<>>
    /\ Observe(0, t)
    /\ UNCHANGED <<quit, verbose, pat, ramp, loopvars>>

RunStep ==
    /\ fed[0] # <<>>
    /\ Len(fed[0]) < MaxRun
    /\ LET k == Len(fed[0])
       IN  Observe(0, Add64(fed[0][k], RunDelta(k)))
    /\ UNCHANGED <<quit, verbose, pat, ramp, loopvars>>

RunNext == (\E t \in T0Set : RunFirst(t)) \/ RunStep

RunSpec == RunInit /\ [][RunNext]_vars

\* ================================================================ clocks
\* The system clock is kept in microseconds; a reading finds it advanced by
\* one of these amounts since the reading before.
Ticks == {0, 5000, 10000}

MicrosPerSec == 1000 * 1000

\* The struct timeval the kernel stamps on an input_event at clock value n.
TimevalAt(n) == [tv_sec |-> n \div MicrosPerSec, tv_usec |-> n % MicrosPerSec]

\* The struct timespec of clock_gettime(CLOCK_MONOTONIC) at clock value n.
TimespecAt(n) ==
    [tv_sec |-> n \div MicrosPerSec, tv_nsec |-> (n % MicrosPerSec) * 1000]

\* QueryPerformanceFrequency of a 1 MHz counter, and its counter at n.
QPFrequency == MicrosPerSec
QPCounterAt(n) == n

\* time = (unsigned long long)event.time.tv_sec * 8000ULL;
\* time += (unsigned long long)event.time.tv_usec / 125ULL;
LinuxTime(tv) == Add64(tv.tv_sec * 8000, tv.tv_usec \div 125)

\* macos_get_time
MacosGetTime(ts) == Add64(ts.tv_sec * 8000, ts.tv_nsec \div 125000)

\* time = (counter.QuadPart * 8000ULL) / freq.QuadPart;
WinTime(counter, freq) == Div64(counter * 8000, freq)

\* The clock when the program starts.
NowStart(pl) == IF pl = "windows" THEN 5000 ELSE MicrosPerSec - 5000

\* ============================================================ poll loops
LoopInit ==
    /\ events = [i \in Dev |-> ZeroEvent]
    /\ quit = 0
    /\ verbose = 1
    /\ last = NoCall
    /\ fed = [i \in Dev |-> <<>>]
    /\ accepted = [i \in Dev |-> <<>>]
    /\ pat = <<>>
    /\ ramp = 0
    /\ platform \in {"linux", "windows", "macos"}
    /\ pc = "init"
    /\ fd = [i \in Dev |-> -1]
    /\ max_event = -1
    /\ idx = 0
    /\ ready = {}
    /\ pending = [i \in Dev |-> <<>>]
    /\ queue = <<>>
    /\ now = NowStart(platform)
    /\ posted = 0
    /\ intr = FALSE
    /\ waits = 0
    /\ summary = {}
    /\ closed = {}

\* The handler is installed, the devices are open and not yet released.
Live == pc \notin {"init", "exit", "done"}

\* while (1), the loop never reading the flag.
Running_always(q) == TRUE

\* while (!quit)
Running(q) == q = 0

\* A summary line for every device, whatever its average.
SummaryLine_always(e) == TRUE

\* if (evt.avghz != 0) printf("Average for %s: %5dHz\n", ...)
SummaryLine(e) == e.avghz # 0

\* A wait (a run-loop step, a Sleep) returns: counted when quit is set.
WaitReturned == IF quit # 0 /\ waits < 2 THEN waits + 1 ELSE waits

\* sigint_handler, run asynchronously; a signal delivered while select is
\* blocked makes select fail with EINTR.
Sigint ==
    /\ Live
    /\ quit' = 1
    /\ intr' = (intr \/ pc = "select")
    /\ UNCHANGED <<verbose, estvars, runvars, platform, pc, fd, max_event,
                   idx, ready, pending, queue, now, posted, waits, summary,
                   closed>>

\* ------------------------------------------------------- Linux, FreeBSD
\* main: signal(), the open() of every slot, max_event, and the early
\* return when no device opened.  The devices that open are the
\* environment's choice; open() returns the lowest free descriptor.
LinuxMain ==
    /\ platform = "linux"
    /\ pc = "init"
    /\ \E present \in SUBSET Dev :
        /\ fd' = [i \in Dev |->
                    IF i \in present
                    THEN 3 + Cardinality({j \in present : j < i})
                    ELSE -1]
        /\ max_event' = IF present = {} THEN -1
                        ELSE CHOOSE i \in present :
                                 \A j \in present : j <= i
        /\ pc' = IF present = {} THEN "exit" ELSE "test"
    /\ UNCHANGED <<quit, verbose, estvars, runvars, platform, idx, ready,
                   pending, queue, now, posted, intr, waits, summary, closed>>

\* The kernel queues one record for device i.  A motion or key record
\* carries the capture time; a short record is one read() returns with a
\* byte count other than sizeof(struct input_event).  Slot 0 is a relative
\* device (a mouse), slot 1 an absolute one (a tablet).  The clock advance
\* is chosen when a motion record is stamped; a record the loop drops is
\* stamped with the clock as it stands.
RecordKinds(i) ==
    IF i = 0 THEN {"EV_REL", "EV_KEY", "short"}
    ELSE {"EV_ABS", "EV_KEY", "short"}

Arrive(i, kind) ==
    /\ platform = "linux"
    /\ Live
    /\ pc # "summary"
    /\ fd[i] # -1
    /\ posted < MaxEvents
    /\ posted' = posted + 1
    /\ \E d \in (IF kind \in {"EV_REL", "EV_ABS"} THEN Ticks ELSE {0}) :
        /\ now' = now + d
        /\ pending' = [pending EXCEPT ![i] =
               Append(@, [bytes |-> IF kind = "short" THEN "short" ELSE "full",
                          type |-> kind,
                          time |-> TimevalAt(now + d)])]
    /\ UNCHANGED <<quit, verbose, estvars, runvars, platform, pc, fd,
                   max_event, idx, ready, queue, intr, waits, summary,
                   closed>>

\* while (!quit)
LinuxTest ==
    /\ platform = "linux"
    /\ pc = "test"
    /\ pc' = IF Running(quit) THEN "fdset" ELSE "summary"
    /\ idx' = 0
    /\ UNCHANGED <<quit, verbose, estvars, runvars, platform, fd, max_event,
                   ready, pending, queue, now, posted, intr, waits, summary,
                   closed>>

\* FD_ZERO(&set); for (...) if (events[i].fd != -1) FD_SET(events[i].fd, &set);
LinuxFdSet ==
    /\ platform = "linux"
    /\ pc = "fdset"
    /\ ready' = {i \in 0 .. max_event : fd[i] # -1}
    /\ pc' = "select"
    /\ UNCHANGED <<quit, verbose, estvars, runvars, platform, fd, max_event,
                   idx, pending, queue, now, posted, intr, waits, summary,
                   closed>>

\* select(...) <= 0: interrupted by a signal; continue
LinuxSelectInterrupted ==
    /\ platform = "linux"
    /\ pc = "select"
    /\ intr
    /\ intr' = FALSE
    /\ pc' = "test"
    /\ UNCHANGED <<quit, verbose, estvars, runvars, platform, fd, max_event,
                   idx, ready, pending, queue, now, posted, waits, summary,
                   closed>>

\* select(...) > 0: it returns once a descriptor of the set is readable and
\* leaves the readable ones in the set.
LinuxSelectReady ==
    /\ platform = "linux"
    /\ pc = "select"
    /\ LET r == {i \in ready : pending[i] # <<>>}
       IN  /\ r # {}
           /\ ready' = r
    /\ intr' = FALSE
    /\ idx' = 0
    /\ pc' = "read"
    /\ UNCHANGED <<quit, verbose, estvars, runvars, platform, fd, max_event,
                   pending, queue, now, posted, waits, summary, closed>>

\* Key records taken for motion records as well.
IsMotion_withKeys(type) == type \in {"EV_REL", "EV_ABS", "EV_KEY"}

\* event.type == EV_REL || event.type == EV_ABS
IsMotion(type) == type \in {"EV_REL", "EV_ABS"}

\* A read loop that also stops once quit is set.
ReadMore_untilQuit(i) == i <= max_event /\ quit = 0

\* for (int i = 0; i <= max_event; i++): the condition of the read loop
ReadMore(i) == i <= max_event

\* One iteration of the for loop over the ready descriptors: the skip of a
\* slot that is closed or not ready, the read, the size test, the type test
\* and update_hz; past max_event, back to the while test.
LinuxRead ==
    /\ platform = "linux"
    /\ pc = "read"
    /\ IF ~ReadMore(idx)
       THEN /\ pc' = "test"
            /\ UNCHANGED <<idx, pending, estvars>>
       ELSE /\ pc' = pc
            /\ idx' = idx + 1
            /\ IF fd[idx] = -1 \/ idx \notin ready
               THEN UNCHANGED <<pending, estvars>>
               ELSE LET rec == Head(pending[idx])
                    IN  /\ pending' = [pending EXCEPT ![idx] = Tail(@)]
                        /\ IF rec.bytes = "full" /\ IsMotion(rec.type)
                           THEN Observe(idx, LinuxTime(rec.time))
                           ELSE UNCHANGED estvars
    /\ UNCHANGED <<quit, verbose, runvars, platform, fd, max_event, ready,
                   queue, now, posted, intr, waits, summary, closed>>

\* One iteration of the closing for loop: the summary line of a device with
\* a non-zero average and close(fd); past max_event, return.
LinuxSummary ==
    /\ platform = "linux"
    /\ pc = "summary"
    /\ IF idx > max_event
       THEN /\ pc' = "done"
            /\ UNCHANGED <<idx, summary, closed>>
       ELSE /\ pc' = pc
            /\ idx' = idx + 1
            /\ IF fd[idx] # -1
               THEN /\ summary' = IF SummaryLine(events[idx])
                                  THEN summary \cup {idx} ELSE summary
                    /\ closed' = closed \cup {idx}
               ELSE UNCHANGED <<summary, closed>>
    /\ UNCHANGED <<quit, verbose, estvars, runvars, platform, fd, max_event,
                   ready, pending, queue, now, posted, intr, waits>>

\* ---------------------------------------------------------------- Windows
\* windows_poll_loop up to its message loop: the window class, the window
\* and the raw input registration, each of which may fail and return.
WindowsSetup ==
    /\ platform = "windows"
    /\ pc = "init"
    /\ \E ok \in BOOLEAN : pc' = IF ok THEN "test" ELSE "exit"
    /\ UNCHANGED <<quit, verbose, estvars, runvars, platform, fd, max_event,
                   idx, ready, pending, queue, now, posted, intr, waits,
                   summary, closed>>

\* Messages of the thread's queue: WM_INPUT for a mouse packet with or
\* without displacement, WM_INPUT for a key, any other message, WM_QUIT.
Messages == {"mouse_move", "mouse_still", "key", "other", "quit"}

Post(msg) ==
    /\ platform = "windows"
    /\ Live
    /\ pc # "summary"
    /\ posted < MaxEvents
    /\ posted' = posted + 1
    /\ queue' = Append(queue, msg)
    /\ UNCHANGED <<quit, verbose, estvars, runvars, platform, pc, fd,
                   max_event, idx, ready, pending, now, intr, waits, summary,
                   closed>>

\* while (!quit)
WinTest ==
    /\ platform = "windows"
    /\ pc = "test"
    /\ pc' = IF Running(quit) THEN "peek" ELSE "summary"
    /\ UNCHANGED <<quit, verbose, estvars, runvars, platform, fd, max_event,
                   idx, ready, pending, queue, now, posted, intr, waits,
                   summary, closed>>

\* RawInputProc on a dispatched message.  For WM_INPUT the buffer may fail
\* to be allocated or filled (return 0); otherwise the counter is read and
\* a mouse packet with displacement or a key goes to update_hz.
RawInputProc(msg) ==
    IF msg \in {"mouse_move", "mouse_still", "key"}
    THEN \E ok \in BOOLEAN :
            IF ok
            THEN \E d \in Ticks :
                    /\ now' = now + d
                    /\ LET time == WinTime(QPCounterAt(now + d), QPFrequency)
                       IN  CASE msg = "mouse_move" -> Observe(0, time)
                             [] msg = "key" -> Observe(1, time)
                             [] OTHER -> UNCHANGED estvars
            ELSE UNCHANGED <<now, estvars>>
    ELSE UNCHANGED <<now, estvars>>

\* One turn of while (PeekMessage(...)): no message ends the inner loop,
\* WM_QUIT sets quit and breaks, any other message is dispatched.
WinPeek ==
    /\ platform = "windows"
    /\ pc = "peek"
    /\ IF queue = <<>>
       THEN /\ pc' = "kbhit"
            /\ UNCHANGED <<queue, quit, now, estvars>>
       ELSE /\ queue' = Tail(queue)
            /\ IF Head(queue) = "quit"
               THEN /\ quit' = 1
                    /\ pc' = "kbhit"
                    /\ UNCHANGED <<now, estvars>>
               ELSE /\ RawInputProc(Head(queue))
                    /\ pc' = pc
                    /\ UNCHANGED quit
    /\ UNCHANGED <<verbose, runvars, platform, fd, max_event, idx, ready,
                   pending, posted, intr, waits, summary, closed>>

\* if (_kbhit()) { ch = _getch(); if (ch == 27) quit = 1; }
WinKbhit ==
    /\ platform = "windows"
    /\ pc = "kbhit"
    /\ \E key \in {"none", "esc", "other"} :
          quit' = IF key = "esc" THEN 1 ELSE quit
    /\ pc' = "sleep"
    /\ UNCHANGED <<verbose, estvars, runvars, platform, fd, max_event, idx,
                   ready, pending, queue, now, posted, intr, waits, summary,
                   closed>>

\* Sleep(1)
WinSleep ==
    /\ platform = "windows"
    /\ pc = "sleep"
    /\ waits' = WaitReturned
    /\ pc' = "test"
    /\ UNCHANGED <<quit, verbose, estvars, runvars, platform, fd, max_event,
                   idx, ready, pending, queue, now, posted, intr, summary,
                   closed>>

\* The two summary lines and DestroyWindow.
WinSummary ==
    /\ platform = "windows"
    /\ pc = "summary"
    /\ summary' = {i \in {0, 1} : SummaryLine(events[i])}
    /\ closed' = {0, 1}
    /\ pc' = "done"
    /\ UNCHANGED <<quit, verbose, estvars, runvars, platform, fd, max_event,
                   idx, ready, pending, queue, now, posted, intr, waits>>

\* ------------------------------------------------------------------ macOS
\* macos_poll_loop up to its loop: the manager may fail to be created or
\* opened, and the function then returns.
MacosSetup ==
    /\ platform = "macos"
    /\ pc = "init"
    /\ \E ok \in BOOLEAN : pc' = IF ok THEN "test" ELSE "exit"
    /\ UNCHANGED <<quit, verbose, estvars, runvars, platform, fd, max_event,
                   idx, ready, pending, queue, now, posted, intr, waits,
                   summary, closed>>

\* HID values waiting on the run loop: of the generic desktop usage page or
\* of another page.
HidValues == {"desktop", "other"}

HidValue(v) ==
    /\ platform = "macos"
    /\ Live
    /\ pc # "summary"
    /\ posted < MaxEvents
    /\ posted' = posted + 1
    /\ queue' = Append(queue, v)
    /\ UNCHANGED <<quit, verbose, estvars, runvars, platform, pc, fd,
                   max_event, idx, ready, pending, now, intr, waits, summary,
                   closed>>

\* while (!quit)
MacTest ==
    /\ platform = "macos"
    /\ pc = "test"
    /\ pc' = IF Running(quit) THEN "run" ELSE "summary"
    /\ UNCHANGED <<quit, verbose, estvars, runvars, platform, fd, max_event,
                   idx, ready, pending, queue, now, posted, intr, waits,
                   summary, closed>>

\* macos_input_callback, called by the run loop while it is being stepped.
MacosInputCallback ==
    /\ platform = "macos"
    /\ pc = "run"
    /\ queue # <<>>
    /\ queue' = Tail(queue)
    /\ IF Head(queue) = "desktop"
       THEN \E d \in Ticks :
               /\ now' = now + d
               /\ Observe(0, MacosGetTime(TimespecAt(now + d)))
       ELSE UNCHANGED <<now, estvars>>
    /\ UNCHANGED <<quit, verbose, runvars, platform, pc, fd, max_event, idx,
                   ready, pending, posted, intr, waits, summary, closed>>

\* CFRunLoopRunInMode(kCFRunLoopDefaultMode, 0.1, false) returns.
MacRunLoopReturns ==
    /\ platform = "macos"
    /\ pc = "run"
    /\ waits' = WaitReturned
    /\ pc' = "test"
    /\ UNCHANGED <<quit, verbose, estvars, runvars, platform, fd, max_event,
                   idx, ready, pending, queue, now, posted, intr, summary,
                   closed>>

\* The summary line, IOHIDManagerClose and CFRelease.
MacSummary ==
    /\ platform = "macos"
    /\ pc = "summary"
    /\ summary' = {i \in {0} : SummaryLine(events[i])}
    /\ closed' = {0}
    /\ pc' = "done"
    /\ UNCHANGED <<quit, verbose, estvars, runvars, platform, fd, max_event,
                   idx, ready, pending, queue, now, posted, intr, waits>>

\* ------------------------------------------------------ the specifications
\* The steps of the main thread.
MainThread ==
    \/ LinuxMain \/ LinuxTest \/ LinuxFdSet \/ LinuxSelectInterrupted
    \/ LinuxSelectReady \/ LinuxRead \/ LinuxSummary
    \/ WindowsSetup \/ WinTest \/ WinPeek \/ WinKbhit \/ WinSleep
    \/ WinSummary
    \/ MacosSetup \/ MacTest \/ MacosInputCallback \/ MacRunLoopReturns
    \/ MacSummary

\* The steps of the environment: devices, other processes, the user.
Environment ==
    \/ Sigint
    \/ \E i \in Dev : \E kind \in RecordKinds(i) : Arrive(i, kind)
    \/ \E msg \in Messages : Post(msg)
    \/ \E v \in HidValues : HidValue(v)

LoopNext == MainThread \/ Environment

\* The callback-driven and the message-pump builds alone.
PumpThread ==
    \/ WindowsSetup \/ WinTest \/ WinPeek \/ WinKbhit \/ WinSleep
    \/ WinSummary
    \/ MacosSetup \/ MacTest \/ MacosInputCallback \/ MacRunLoopReturns
    \/ MacSummary

PumpNext ==
    \/ PumpThread
    \/ Sigint
    \/ \E msg \in Messages : Post(msg)
    \/ \E v \in HidValues : HidValue(v)

PumpInit == LoopInit /\ platform \in {"windows", "macos"}

LoopSpec == LoopInit /\ [][LoopNext]_vars

\* The main thread keeps running while it has a step to take.
FairLoopSpec == LoopSpec /\ WF_vars(MainThread)

FairPumpSpec == PumpInit /\ [][PumpNext]_vars /\ WF_vars(PumpThread)

\* ================================================ claims on the estimator
RECURSIVE SeqSum(_)
SeqSum(s) == IF s = <<>> THEN 0 ELSE s[1] + SeqSum(Tail(s))

\* The truncating integer mean of a non-empty sequence of rates.
Mean(s) == SeqSum(s) \div Len(s)

\* The last n elements of s.
LastN(s, n) == SubSeq(s, Len(s) - n + 1, Len(s))

\* a < b as unsigned 64-bit values.
Less64(a, b) ==
    \/ a >= 0 /\ b < 0
    \/ (a >= 0) = (b >= 0) /\ a < b

\* Strictly increasing as unsigned 64-bit values.
Increasing(s) == \A k \in 1 .. (Len(s) - 1) : Less64(s[k], s[k + 1])

\* The delta between the last two timestamps fed to device 0.
LastDelta == Sub64(fed[0][Len(fed[0])], fed[0][Len(fed[0]) - 1])

\* C1: right after the m-th accepted sample, 1 <= m <= 64, avghz is the
\* truncating mean of the m accepted rates.
C1_MeanOfAccepted ==
    (last.sample /\ Len(accepted[0]) <= HZ_LIST)
        => events[0].avghz = Mean(accepted[0])

\* C2: right after the m-th accepted sample, m > 64, avghz is the truncating
\* mean of the 64 most recently accepted rates.
C2_MeanOfLast64 ==
    (last.sample /\ Len(accepted[0]) > HZ_LIST)
        => events[0].avghz = Mean(LastN(accepted[0], HZ_LIST))

\* A sample accepted after the ring wrapped, in a run that also rejected
\* events, whose rate differs from the one it evicts and whose window has a
\* mean different from that of the 64 rates before it.
C2_Witness ==
    LET a == accepted[0]
        m == Len(a)
    IN  /\ last.sample
        /\ m > HZ_LIST + 1
        /\ Len(fed[0]) > m + 1
        /\ a[m] # a[m - HZ_LIST]
        /\ Mean(LastN(a, HZ_LIST)) # Mean(SubSeq(a, m - HZ_LIST, m - 1))
        /\ events[0].avghz = Mean(LastN(a, HZ_LIST))

\* C3 as stated: for strictly increasing timestamps every call after the
\* first produces a sample whose rate is 8000 / delta.
C3_EveryIncreasingCallSamples ==
    (Len(fed[0]) >= 2 /\ Increasing(fed[0]))
        => (last.sample /\ last.hz = Div64(SCALE, LastDelta))

\* C3 amended: for strictly increasing timestamps whose first is not the
\* sentinel 0, every call after the first whose delta is at most 8000
\* produces a sample whose rate is 8000 / delta.
C3_IncreasingCallSamples ==
    (/\ Len(fed[0]) >= 2
     /\ Increasing(fed[0])
     /\ fed[0][1] # 0
     /\ LastDelta \in 1 .. SCALE)
        => (last.sample /\ last.hz = SCALE \div LastDelta)

C3_Witness ==
    /\ Len(fed[0]) >= 3
    /\ Increasing(fed[0])
    /\ fed[0][1] # 0
    /\ LastDelta = 80
    /\ last.sample
    /\ last.hz = 100

\* C4: on a baseline event followed by events at a constant delta d in
\* 1 .. 8000, every sample reports the running average 8000 / d.
C4_ConstantDeltaAverage ==
    (/\ Len(pat) = 1
     /\ ramp = 0
     /\ pat[1] \in 1 .. SCALE
     /\ fed[0] # <<>>
     /\ fed[0][1] # 0
     /\ last.sample)
        => last.avghz = SCALE \div pat[1]

\* The event_t fields other than the baseline are as before the last call.
HistoryUntouched ==
    /\ events[0].hz = last.before.hz
    /\ events[0].count = last.before.count
    /\ events[0].avghz = last.before.avghz

\* C5: an event whose timestamp equals the non-zero baseline produces no
\* sample, leaves hz, count and avghz unchanged and leaves the baseline
\* equal to its timestamp.
C5_ZeroDeltaNoSample ==
    (last.dev = 0 /\ last.before.prev_time # 0
                  /\ last.time = last.before.prev_time)
        => (/\ ~last.sample
            /\ ~last.printed
            /\ HistoryUntouched
            /\ events[0].prev_time = last.time)

C5_Witness ==
    /\ last.dev = 0
    /\ last.before.prev_time # 0
    /\ last.time = last.before.prev_time
    /\ last.before.count >= 2
    /\ last.before.avghz > 0
    /\ events[0].count = last.before.count

\* C6: the first call on a zero-initialised estimator produces no sample;
\* it stores its timestamp as the baseline and changes nothing else.
C6_FirstCallNoSample ==
    Len(fed[0]) = 1
        => (/\ ~last.sample
            /\ ~last.printed
            /\ events[0] = [ZeroEvent EXCEPT !.prev_time = fed[0][1]])

C6_Witness ==
    /\ Len(fed[0]) = 1
    /\ last.before = ZeroEvent
    /\ fed[0][1] = 9000
    /\ events[0].prev_time = 9000
    /\ events[0].count = 0

\* C8: count > 0 implies avghz /= 0.
C8_CountedHasAverage == events[0].count > 0 => events[0].avghz # 0

\* C10 as stated: prev_time = 0 implies count = 0, whatever was fed.
C10_SentinelMeansNoSamples ==
    events[0].prev_time = 0 => events[0].count = 0

\* Timestamp 0 is never passed after a non-zero timestamp.
ZeroOnlyLeading(s) == \A k \in 2 .. Len(s) : s[k] = 0 => s[k - 1] = 0

\* C10 amended: as long as timestamp 0 is never passed after a non-zero
\* timestamp (non-monotonic sequences included), prev_time = 0 implies
\* count = 0.
C10_SentinelMeansNoSamplesUnlessZeroFed ==
    ZeroOnlyLeading(fed[0])
        => (events[0].prev_time = 0 => events[0].count = 0)

\* Two or more calls, all with timestamp 0: the baseline is still the
\* sentinel and nothing was accepted.
C10_Witness ==
    /\ Len(fed[0]) >= 2
    /\ ZeroOnlyLeading(fed[0])
    /\ events[0].prev_time = 0
    /\ events[0].count = 0
\* ================================================ claims on the poll loops
\* C7: a summary line is printed only for a device whose avghz is non-zero,
\* and never for a device that accepted no sample, on every platform.
C7_SummaryOnlyNonZero ==
    \A i \in summary : events[i].avghz # 0 /\ events[i].count > 0

\* A finished run that printed a summary for one device and none for
\* another, released device that accepted no sample.
C7_Witness ==
    /\ pc = "done"
    /\ \E i \in summary : events[i].count >= 2
    /\ \E i \in closed \ summary : events[i].count = 0

\* The positions inside the loops of the callback-driven and message-pump
\* builds.
InPumpLoop == pc \in {"test", "run", "peek", "kbhit", "sleep"}

\* C9: in the callback-driven and message-pump builds, once quit is set at
\* most one wait returns before the loop exits, and the loop does exit and
\* reach the end of the summary, with no further input needed.
C9_QuitEndsPumpLoop ==
    /\ [](waits <= 1)
    /\ (quit = 1 /\ InPumpLoop) ~> (pc = "done")

\* A run that got no input at all, was told to quit during a wait, and
\* finished after that one wait returned.
C9_Witness ==
    /\ pc = "done"
    /\ quit = 1
    /\ waits = 1
    /\ posted = 0

\* ================================== further claims on the estimator
\* The rate of an unsigned 64-bit delta d: 0 for d = 0, 8000 / d otherwise.
RateOfDelta(d) == IF d = 0 THEN 0 ELSE Div64(SCALE, d)

\* C11: every call leaves prev_time equal to its timestamp, and a call made
\* with a baseline measures its delta against the timestamp of the call
\* before it.
C11_BaselineIsLastTimestamp ==
    last.dev = 0
        => (/\ events[0].prev_time = last.time
            /\ (Len(fed[0]) >= 2 /\ last.before.prev_time # 0)
                   => last.hz = RateOfDelta(LastDelta))

\* A sample accepted right after a rejected event, its rate measured from
\* the rejected event's timestamp.
C11_Witness ==
    LET n == Len(fed[0])
    IN  /\ n >= 4
        /\ fed[0][n - 2] # 0
        /\ fed[0][n - 1] # 0
        /\ RateOfDelta(Sub64(fed[0][n - 1], fed[0][n - 2])) = 0
        /\ last.sample
        /\ last.hz = RateOfDelta(LastDelta)
        /\ last.hz # RateOfDelta(Sub64(fed[0][n], fed[0][n - 2]))
        /\ events[0].prev_time = fed[0][n]

\* The slot an accepted sample writes: count, after its increment, masked.
WrittenSlot == events[0].count % HZ_LIST

\* An accepted sample changed exactly the slot WrittenSlot, to its rate.
WritesOneSlot ==
    /\ events[0].count = last.before.count + 1
    /\ events[0].hz[WrittenSlot] = last.hz
    /\ \A j \in 0 .. (HZ_LIST - 1) :
           j # WrittenSlot => events[0].hz[j] = last.before.hz[j]

\* The oldest of the rates retained before the last accepted sample: the
\* retained ones are the last min(count - 1, 64) accepted before it.
OldestRetained ==
    LET c == events[0].count
    IN  accepted[0][IF c > HZ_LIST THEN c - HZ_LIST ELSE 1]

\* C12 as stated: an accepted sample writes one slot, and from count = 64 on
\* the slot it overwrites is populated and holds the oldest retained rate.
C12_OverwritesOldestFrom64 ==
    last.sample
        => (/\ WritesOneSlot
            /\ events[0].count >= HZ_LIST
                   => (/\ last.before.hz[WrittenSlot] # 0
                       /\ last.before.hz[WrittenSlot] = OldestRetained))

\* C12 amended: the same from count = 65 on; the 64th sample fills slot 0,
\* which no sample had written.
C12_OverwritesOldestFrom65 ==
    last.sample
        => (/\ WritesOneSlot
            /\ events[0].count > HZ_LIST
                   => (/\ last.before.hz[WrittenSlot] # 0
                       /\ last.before.hz[WrittenSlot] = OldestRetained)
            /\ events[0].count = HZ_LIST
                   => last.before.hz[WrittenSlot] = 0)

\* A sample past the 65th that replaced the oldest retained rate by a
\* different one.
C12_Witness ==
    /\ last.sample
    /\ events[0].count > HZ_LIST + 1
    /\ last.before.hz[WrittenSlot] = OldestRetained
    /\ events[0].hz[WrittenSlot] # last.before.hz[WrittenSlot]
    /\ WritesOneSlot

\* The delta of the last call, read as unsigned, is above 8000.
LastDeltaAbove8000 ==
    LET d == Sub64(last.time, last.before.prev_time)
    IN  d < 0 \/ d > SCALE

\* C13: with a baseline set, an event whose delta is above 8000 ticks, a
\* timestamp before the baseline wrapping to such a delta included, is
\* rejected: no sample, no line, hz, count and avghz unchanged, and the
\* baseline becomes its timestamp.
C13_ZeroRateRejected ==
    (last.dev = 0 /\ last.before.prev_time # 0 /\ LastDeltaAbove8000)
        => (/\ ~last.sample
            /\ ~last.printed
            /\ HistoryUntouched
            /\ events[0].prev_time = last.time)

\* An event with a timestamp before the baseline, after two samples.
C13_Witness ==
    /\ last.dev = 0
    /\ last.before.prev_time # 0
    /\ Less64(last.time, last.before.prev_time)
    /\ LastDeltaAbove8000
    /\ last.before.count >= 2
    /\ last.before.avghz > 0
    /\ events[0].prev_time = last.time
    /\ events[0].count = last.before.count

\* The slots some accepted sample has written.
Populated == {k % HZ_LIST : k \in 1 .. events[0].count}

\* C18: every populated slot and every emitted rate is in 1 .. 8000, every
\* slot in 0 .. 8000 and the running average in 0 .. 8000.
C18_RatesWithin8000 ==
    /\ \A j \in 0 .. (HZ_LIST - 1) : events[0].hz[j] \in 0 .. SCALE
    /\ \A j \in Populated : events[0].hz[j] \in 1 .. SCALE
    /\ last.sample => last.hz \in 1 .. SCALE
    /\ events[0].avghz \in 0 .. SCALE
    /\ \A k \in 1 .. Len(accepted[0]) : accepted[0][k] \in 1 .. SCALE

\* A slot holding the largest rate, 8000 (a delta of one tick), and a
\* non-zero average.
C18_Witness ==
    /\ \E j \in Populated : events[0].hz[j] = SCALE
    /\ events[0].count >= 2
    /\ events[0].avghz > 0

\* ===================================== further claims on the loops
\* The read loop is at a ready, open handle whose next record is dropped:
\* a short or failed read, or a record that is neither EV_REL nor EV_ABS.
AtDroppedRecord ==
    /\ platform = "linux"
    /\ pc = "read"
    /\ idx <= max_event
    /\ fd[idx] # -1
    /\ idx \in ready
    /\ LET rec == Head(pending[idx])
       IN  rec.bytes # "full" \/ rec.type \notin {"EV_REL", "EV_ABS"}

\* C14: the read of a dropped record consumes it and changes no estimator,
\* sets no flag, and the loop goes on to the next handle of the same set.
C14_DroppedRecordNoEvent ==
    [][(AtDroppedRecord /\ pending'[idx] = Tail(pending[idx]))
          => (/\ events' = events
              /\ fed' = fed
              /\ last' = last
              /\ quit' = quit
              /\ pc' = "read"
              /\ idx' = idx + 1
              /\ ready' = ready
              /\ fd' = fd
              /\ closed' = closed)]_vars

\* Device 0's record was dropped (it was ready, is consumed, and no call
\* was ever made for device 0) and the loop stands at device 1, ready with
\* a record to read.
C14_Witness ==
    /\ platform = "linux"
    /\ pc = "read"
    /\ idx = 1
    /\ ready = {0, 1}
    /\ pending[0] = <<>>
    /\ fed[0] = <<>>
    /\ pending[1] # <<>>
    /\ quit = 0

\* update_hz folded over a timestamp sequence from the zeroed event_t.
RECURSIVE Replay(_)
Replay(ts) ==
    IF ts = <<>> THEN ZeroEvent
    ELSE UpdateHz(Replay(SubSeq(ts, 1, Len(ts) - 1)), ts[Len(ts)]).evt

\* C15: the estimator of each device is the one its own timestamps alone
\* produce, whatever was routed to the other device in between.
C15_OwnTimestampsOnly ==
    \A i \in Dev : events[i] = Replay(fed[i])

\* Device 1's event fell between two of device 0's, and both have a
\* baseline.
C15_Witness ==
    /\ Len(fed[0]) >= 2
    /\ Len(fed[1]) >= 1
    /\ Less64(fed[0][1], fed[1][1])
    /\ Less64(fed[1][1], fed[0][2])
    /\ events[0].count >= 1
    /\ events[1].prev_time = fed[1][1]
    /\ events[1].prev_time # events[0].prev_time

\* A step of the Linux read loop, as opposed to one of the environment.
ReadLoopStep == platform = "linux" /\ pc = "read" /\ (pc' # pc \/ idx' # idx)

\* The read loop visits every slot and reads every ready handle, whatever
\* quit is; a motion record read is routed.
ReadsEveryReadyHandle ==
    ReadLoopStep
        => IF idx <= max_event
           THEN /\ pc' = "read"
                /\ idx' = idx + 1
                /\ (fd[idx] # -1 /\ idx \in ready)
                      => (/\ pending'[idx] = Tail(pending[idx])
                          /\ LET rec == Head(pending[idx])
                             IN  (rec.bytes = "full"
                                    /\ rec.type \in {"EV_REL", "EV_ABS"})
                                   => Len(fed'[idx]) = Len(fed[idx]) + 1)
           ELSE pc' = "test"

\* A step of the Windows inner loop.
PeekLoopStep ==
    platform = "windows" /\ pc = "peek"
        /\ (pc' # pc \/ (queue # <<>> /\ queue' = Tail(queue)))

C17_QuitNeverBlocks ==
    (platform = "linux" /\ quit = 1 /\ Live) => ENABLED MainThread

\* C19: the two runs, after the same events, have the same estimator, the
\* same accepted rates and the same summary line; the verbose run prints a
\* line for every sample and the non-verbose run prints none.
C19_VerboseOnlyPrints ==
    /\ Len(fed[0]) = Len(fed[1])
          => (/\ fed[0] = fed[1]
              /\ events[0] = events[1]
              /\ accepted[0] = accepted[1]
              /\ SummaryLine(events[0]) = SummaryLine(events[1])
              /\ events[0].avghz = events[1].avghz)
    /\ last.dev = 0 => last.printed = last.sample
    /\ last.dev = 1 => ~last.printed

\* Both runs took a third sample, the non-verbose one silently, and have a
\* summary line to print.
C19_Witness ==
    /\ Len(fed[0]) = Len(fed[1])
    /\ last.dev = 1
    /\ last.sample
    /\ ~last.printed
    /\ events[1].count >= 3
    /\ SummaryLine(events[1])
    /\ events[0] = events[1]

=============================================================================
